---- MODULE Spec2Model ----
(***************************************************************************)
(* Model of rodent-sim:                                                    *)
(*   testing.get_maze_coordinates          (src/testing.py)                *)
(*   grid_images.get_maze_coordinates      (src/dynamic/grid_images.py)    *)
(*   grid_images.log_message               (src/dynamic/grid_images.py)    *)
(*   grid_images.run, capture_views, setup_render_settings,                *)
(*     switch_to_render_workspace, perform_render                          *)
(*   set_capture.move_object_vertical      (src/dynamic_moving/)           *)
(*                                                                         *)
(* Python floats are IEEE-754 binary64.  The resolver's arithmetic is      *)
(* modelled bit-exactly: a float is a sign and a magnitude, the magnitude  *)
(* a fixed-point number in units of 2^-51 held in four limbs of 17 bits    *)
(* (least significant first, the fourth limb is the integer part).  Every  *)
(* float the resolver produces is 0 or has magnitude in [2, 2^17), so it   *)
(* is a multiple of 2^-51 and the representation is exact; each operation  *)
(* rounds its exact result to 53 significant bits, ties to even.           *)
(***************************************************************************)
EXTENDS Integers, Sequences, FiniteSets, TLC

VARIABLES
    grid_x, grid_y,   \* arguments of the latest call of testing.get_maze_coordinates
    result,           \* its outcome: a returned tuple or the exception raised
    enable_logging,   \* grid_images.enable_logging (configuration variable)
    gi_x, gi_y,       \* arguments of grid_images.get_maze_coordinates
    gi_result,        \* outcome of its latest call
    log,              \* the entries of the file at log_file_path, oldest first
    calls,            \* number of calls of grid_images.get_maze_coordinates made
    sc_design,        \* set_capture: app.activeProduct is a design (not None)
    occurrences,      \* set_capture: the occurrences the search inspects, by level
    sc_args,          \* set_capture: the arguments of move_object_vertical
    sc_ret,           \* set_capture: what move_object_vertical returned
    sc_boxes,         \* set_capture: the message boxes shown, oldest first
    exit_on_error,    \* grid_images: the module's exit_on_error setting
    log_ok,           \* grid_images: the log file can be opened and written
    grid_positions,   \* grid_images: the list run passes to capture_views
    pc,               \* grid_images: where the script run stands
    pos_index,        \* capture_views: index of the position being processed
    dir_index,        \* capture_views: index of the direction being processed
    eye,              \* capture_views: the eye being rendered
    render_state,     \* the host's render_future.renderState
    polls,            \* perform_render: iterations of the polling loop so far
    render_result,    \* what perform_render returned last
    renders,          \* the renders started, oldest first: <<x, y, direction, eye>>
    exit_code,        \* the argument of the SystemExit raised, 0 while none is
    failures,         \* failures the host has produced so far
    ui_boxes,         \* grid_images: the message boxes shown, oldest first
    runner_script,    \* launcher: the file the runner script was written to
    runner_pc,        \* runner script: where its run(context) stands
    active_document,  \* the host's app.activeDocument is set
    retries,          \* runner script: its retries counter
    runner_boxes,     \* runner script: the message boxes shown, oldest first
    loaded,           \* runner script: the grid_images module was loaded
    run_calls,        \* runner script: calls of grid_images.run made
    eyes_script,      \* the script whose calculate_eye_positions is called
    eyes_cell,        \* the grid cell the position was resolved from
    position,         \* the position (cm) passed to calculate_eye_positions
    eyes_heading,     \* the heading (degrees) passed to it
    left_eye,         \* the left eye it returned
    right_eye         \* the right eye it returned

vars == <<grid_x, grid_y, result,
          enable_logging, gi_x, gi_y, gi_result, log, calls,
          sc_design, occurrences, sc_args, sc_ret, sc_boxes,
          exit_on_error, log_ok, grid_positions, pc, pos_index, dir_index, eye,
          render_state, polls, render_result, renders, exit_code, failures,
          ui_boxes,
          runner_script, runner_pc, active_document, retries, runner_boxes,
          loaded, run_calls,
          eyes_script, eyes_cell, position, eyes_heading, left_eye, right_eye>>

eyes_vars == <<eyes_script, eyes_cell, position, eyes_heading, left_eye, right_eye>>

runner_vars == <<runner_script, runner_pc, active_document, retries, runner_boxes,
                loaded, run_calls>>

\* what a script run changes besides the log and the resolver's last call
run_vars == <<pc, pos_index, dir_index, eye, render_state, polls, render_result,
             renders, exit_code, failures, ui_boxes>>

cap_vars == <<exit_on_error, log_ok, grid_positions, pc, pos_index, dir_index, eye,
             render_state, polls, render_result, renders, exit_code, failures,
             ui_boxes>>

sc_vars == <<sc_design, occurrences, sc_args, sc_ret, sc_boxes>>

testing_vars == <<grid_x, grid_y, result>>

gi_vars == <<enable_logging, gi_x, gi_y, gi_result, log, calls>>

(***************************************************************************)
(* Bounds of the model.                                                    *)
(***************************************************************************)
\* how far beyond the grid 0..12 the integer arguments are drawn
Margin == 1

\* number of calls of grid_images.get_maze_coordinates in one behaviour
MaxCalls == 2

Inputs == (0 - Margin)..(12 + Margin)

(***************************************************************************)
(* binary64 arithmetic.                                                    *)
(***************************************************************************)
\* limb base 2^17; three limbs are the 51 fraction bits
LimbBase == 2^17

Pow2(k) == IF k = 0 THEN 1 ELSE IF k = 1 THEN 2 ELSE IF k = 2 THEN 4
           ELSE IF k = 3 THEN 8 ELSE IF k = 4 THEN 16 ELSE IF k = 5 THEN 32
           ELSE IF k = 6 THEN 64 ELSE IF k = 7 THEN 128 ELSE IF k = 8 THEN 256
           ELSE IF k = 9 THEN 512 ELSE IF k = 10 THEN 1024
           ELSE IF k = 11 THEN 2048 ELSE IF k = 12 THEN 4096
           ELSE IF k = 13 THEN 8192 ELSE IF k = 14 THEN 16384
           ELSE IF k = 15 THEN 32768 ELSE 65536

\* floor(log2(n)) for 1 <= n < 2^17, 0 for n = 0
Log2Floor(n) == IF n < 2 THEN 0
                ELSE CHOOSE k \in 1..16 : Pow2(k) <= n /\ n < 2 * Pow2(k)

Abs(n) == IF n < 0 THEN 0 - n ELSE n

MagZero == <<0, 0, 0, 0>>

\* carry propagation: limbs 1..3 back into 0..LimbBase-1
MagNorm(a) ==
    LET c1 == a[1] \div LimbBase
        t2 == a[2] + c1
        c2 == t2 \div LimbBase
        t3 == a[3] + c2
        c3 == t3 \div LimbBase
    IN  <<a[1] % LimbBase, t2 % LimbBase, t3 % LimbBase, a[4] + c3>>

MagAdd(a, b) == MagNorm(<<a[1] + b[1], a[2] + b[2], a[3] + b[3], a[4] + b[4]>>)

MagLess(a, b) ==
    \/ a[4] < b[4]
    \/ a[4] = b[4] /\ a[3] < b[3]
    \/ a[4] = b[4] /\ a[3] = b[3] /\ a[2] < b[2]
    \/ a[4] = b[4] /\ a[3] = b[3] /\ a[2] = b[2] /\ a[1] < b[1]

\* a - b for b <= a; \div and % floor, so the borrows propagate in MagNorm
MagSub(a, b) == MagNorm(<<a[1] - b[1], a[2] - b[2], a[3] - b[3], a[4] - b[4]>>)

\* a * k for an integer 0 <= k <= 1000 (exact)
MagMulSmall(a, k) == MagNorm(<<a[1] * k, a[2] * k, a[3] * k, a[4] * k>>)

\* Round the exact magnitude t + r/d units (0 <= r < d) to 53 significant
\* bits, ties to even.  With the integer part in [2^k, 2^(k+1)), k >= 1, the
\* value has 52 + k bits down to the unit 2^-51, so the last k - 1 bits of
\* limb 1 are dropped.
Round53(t, r, d) ==
    LET k    == Log2Floor(t[4])
        q    == IF k = 0 THEN 1 ELSE Pow2(k - 1)
        low  == t[1] % q
        base == <<t[1] - low, t[2], t[3], t[4]>>
        rest == 2 * (low * d + r)
        odd  == (t[1] \div q) % 2 = 1
        up   == rest > q * d \/ (rest = q * d /\ odd)
    IN  IF up THEN MagNorm(<<base[1] + q, base[2], base[3], base[4]>>)
        ELSE base

\* the exact magnitude a / d for a small integer d >= 1, as <<quotient, rest>>
MagDivSmall(a, d) ==
    LET q4 == a[4] \div d
        r4 == a[4] % d
        n3 == r4 * LimbBase + a[3]
        q3 == n3 \div d
        r3 == n3 % d
        n2 == r3 * LimbBase + a[2]
        q2 == n2 \div d
        r2 == n2 % d
        n1 == r2 * LimbBase + a[1]
        q1 == n1 \div d
        r1 == n1 % d
    IN  <<(<<q1, q2, q3, q4>>), r1>>

Float(neg, mag) == [neg |-> neg, mag |-> mag]

\* float(n) of a Python int |n| < 2^17 (exact)
FromInt(n) == Float(n < 0, <<0, 0, 0, Abs(n)>>)

FNeg(a) == Float(~a.neg, a.mag)

\* a + b, correctly rounded; an exact zero sum of opposite signs is +0.0
FAdd(a, b) ==
    IF a.neg = b.neg THEN Float(a.neg, Round53(MagAdd(a.mag, b.mag), 0, 1))
    ELSE IF a.mag = b.mag THEN Float(FALSE, MagZero)
    ELSE IF MagLess(a.mag, b.mag)
         THEN Float(b.neg, Round53(MagSub(b.mag, a.mag), 0, 1))
         ELSE Float(a.neg, Round53(MagSub(a.mag, b.mag), 0, 1))

FSub(a, b) == FAdd(a, FNeg(b))

\* n * a for a Python int n: n is converted to float, the product is
\* correctly rounded
FMulInt(n, a) ==
    Float((n < 0) # a.neg, Round53(MagMulSmall(a.mag, Abs(n)), 0, 1))

\* a / d for a small positive int d, correctly rounded
FDivInt(a, d) ==
    LET qr == MagDivSmall(a.mag, d)
    IN  Float(a.neg, Round53(qr[1], qr[2], d))

\* The float a decimal literal with three decimals denotes, m = literal*1000:
\* the binary64 nearest to m/1000 (str -> float is correctly rounded).
Lit(m) == FDivInt(FromInt(m), 1000)

\* the integer nearest to |a| * 1000, ties to even
NearestMilli(a) ==
    LET p    == MagMulSmall(a.mag, 1000)
        half == LimbBase \div 2
        more == p[3] > half \/ (p[3] = half /\ (p[2] > 0 \/ p[1] > 0))
        tie  == p[3] = half /\ p[2] = 0 /\ p[1] = 0
    IN  IF more \/ (tie /\ p[4] % 2 = 1) THEN p[4] + 1 ELSE p[4]

\* round(a, 3) left out: the value is returned as computed
round3_omitted(a) == a

\* Python round(a, 3): the decimal with three places nearest to the exact
\* binary value of a, converted back to the nearest float
round3(a) ==
    LET m == NearestMilli(a)
    IN  Float(a.neg /\ m # 0, Lit(m).mag)

\* a * b for one limb 0 <= b < 2^17 (exact), b taken in two parts so that no
\* partial product exceeds 32 bits; |a| < 2^9
MagMulLimb(a, b) ==
    MagAdd(MagMulSmall(a, b % 512),
           MagMulSmall(MagMulSmall(a, b \div 512), 512))

\* a with its lowest limb dropped: floor(a / 2^17)
MagShiftLimb(a) == <<a[2], a[3], a[4] % LimbBase, a[4] \div LimbBase>>

\* the fraction n/2^17 + (something below 2^-17, present iff sticky) as
\* <<r, d>>: r/d lies strictly between the neighbouring multiples of 2^-12
\* when bits are lost, and is exact otherwise
Fraction13(n, sticky) ==
    <<2 * (n \div 32) + (IF n % 32 # 0 \/ sticky THEN 1 ELSE 0), 8192>>

\* a * b for two floats, correctly rounded: the exact product of the
\* magnitudes is accumulated limb by limb of b, lowest first, and carries
\* 51 more fraction bits than the unit, which are the three limbs dropped
FMul(a, b) ==
    LET s1 == MagMulLimb(a.mag, b.mag[1])
        s2 == MagAdd(MagShiftLimb(s1), MagMulLimb(a.mag, b.mag[2]))
        s3 == MagAdd(MagShiftLimb(s2), MagMulLimb(a.mag, b.mag[3]))
        t  == MagAdd(MagShiftLimb(s3), MagMulLimb(a.mag, b.mag[4]))
        f  == Fraction13(s3[1], s2[1] # 0 \/ s1[1] # 0)
    IN  Float(a.neg # b.neg, Round53(t, f[1], f[2]))

\* A float below 2 in magnitude is kept as a float of the model and a binary
\* exponent: Scaled(a, s) is a * 2^-s, exactly.
Scaled(a, s) == [neg |-> a.neg, mag |-> a.mag, exp |-> s]

ScaledNeg(x) == [neg |-> ~x.neg, mag |-> x.mag, exp |-> x.exp]

\* x * y: scaling by a power of two commutes with rounding
ScaledMul(x, y) ==
    Scaled(FMul(Float(x.neg, x.mag), Float(y.neg, y.mag)), x.exp + y.exp)

\* x / 2.0
ScaledHalve(x) == [neg |-> x.neg, mag |-> x.mag, exp |-> x.exp + 1]

\* the magnitude of x in units of 2^-51 as <<whole units, r, d>>, the part
\* below the unit being r/d: an exact division for exp <= 12, and for
\* 51 <= exp <= 62 (magnitudes below one unit) the first 12 fraction bits with
\* the lost ones marked as in Fraction13
ScaledUnits(x) ==
    IF x.exp <= 12
    THEN LET qr == MagDivSmall(x.mag, Pow2(x.exp))
         IN  <<qr[1], qr[2], Pow2(x.exp)>>
    ELSE LET n == x.mag[4] * LimbBase + x.mag[3]
             c == Pow2(x.exp - 46)
         IN  <<MagZero,
               2 * (n \div c) + (IF n % c # 0 \/ x.mag[2] # 0 \/ x.mag[1] # 0
                                 THEN 1 ELSE 0),
               8192>>

\* p + x for a float p and a scaled x smaller than p in magnitude, correctly
\* rounded
FAddScaled(p, x) ==
    LET u == ScaledUnits(x)
    IN  IF p.neg = x.neg
        THEN Float(p.neg, Round53(MagAdd(p.mag, u[1]), u[2], u[3]))
        ELSE IF u[2] = 0
        THEN Float(p.neg, Round53(MagSub(p.mag, u[1]), 0, 1))
        ELSE Float(p.neg, Round53(MagSub(MagSub(p.mag, u[1]), <<1, 0, 0, 0>>),
                                  u[3] - u[2], u[3]))

\* p - x
FSubScaled(p, x) == FAddScaled(p, ScaledNeg(x))

(***************************************************************************)
(* testing.get_maze_coordinates                                            *)
(***************************************************************************)
\* InRange with the upper bound of grid_y forgotten
InRange_no_upper_y(gx, gy) == 0 <= gx /\ gx <= 12 /\ 0 <= gy

\* the validation: 0 <= grid_x <= 12 and 0 <= grid_y <= 12
InRange(gx, gy) == 0 <= gx /\ gx <= 12 /\ 0 <= gy /\ gy <= 12

\* reference_points with the (10, 2) entry one thousandth off the rule
reference_points_off_rule ==
    (<<1, 1>>   :> <<8039, 100980>>)  @@ (<<2, 2>>   :> <<16336, 92683>>) @@
    (<<6, 2>>   :> <<55519, 92683>>)  @@ (<<6, 6>>   :> <<55519, 53500>>) @@
    (<<10, 2>>  :> <<94703, 92683>>)  @@ (<<11, 1>>  :> <<102999, 100980>>) @@
    (<<2, 10>>  :> <<16336, 21973>>)  @@ (<<1, 11>>  :> <<8039, 6020>>) @@
    (<<11, 11>> :> <<102999, 6020>>)

\* reference_points with the digits of the (6, 6) entry transposed
reference_points_typo ==
    (<<1, 1>>   :> <<8039, 100980>>)  @@ (<<2, 2>>   :> <<16336, 92683>>) @@
    (<<6, 2>>   :> <<55519, 92683>>)  @@ (<<6, 6>>   :> <<55519, 53050>>) @@
    (<<10, 2>>  :> <<94702, 92683>>)  @@ (<<11, 1>>  :> <<102999, 100980>>) @@
    (<<2, 10>>  :> <<16336, 21973>>)  @@ (<<1, 11>>  :> <<8039, 6020>>) @@
    (<<11, 11>> :> <<102999, 6020>>)

\* (grid_x, grid_y) : (x_inches, y_inches), the literals in thousandths
reference_points ==
    (<<1, 1>>   :> <<8039, 100980>>)  @@ (<<2, 2>>   :> <<16336, 92683>>) @@
    (<<6, 2>>   :> <<55519, 92683>>)  @@ (<<6, 6>>   :> <<55519, 53500>>) @@
    (<<10, 2>>  :> <<94702, 92683>>)  @@ (<<11, 1>>  :> <<102999, 100980>>) @@
    (<<2, 10>>  :> <<16336, 21973>>)  @@ (<<1, 11>>  :> <<8039, 6020>>) @@
    (<<11, 11>> :> <<102999, 6020>>)

\* Z_HEIGHT with a mistyped digit
Z_HEIGHT_mistyped == Lit(33557)

Z_HEIGHT == Lit(33577)

\* x_step divided by the nine columns 2..10 instead of the eight intervals
x_step_by_columns == FDivInt(FSub(Lit(94702), Lit(16336)), 9)

\* x_step = (94.702 - 16.336) / 8
x_step == FDivInt(FSub(Lit(94702), Lit(16336)), 8)

\* y_step divided by the five rows 2..6 instead of the four intervals
y_step_by_rows == FDivInt(FSub(Lit(92683), Lit(53500)), 5)

\* y_step = (92.683 - 53.50) / 4
y_step == FDivInt(FSub(Lit(92683), Lit(53500)), 4)

\* y_step_lower computed from the upper span (rows 2..6) again
y_step_lower_upper_span == FDivInt(FSub(Lit(92683), Lit(53500)), 4)

\* y_step_lower = (53.50 - 21.973) / 4
y_step_lower == FDivInt(FSub(Lit(53500), Lit(21973)), 4)

\* x_inches without the branch for column 1
x_inches_no_left(gx) ==
    IF gx = 11 THEN Lit(102999)
    ELSE FAdd(Lit(16336), FMulInt(gx - 2, x_step))

\* x_inches stepping down from column 2 instead of up
x_inches_descending(gx) ==
    IF gx = 1 THEN Lit(8039)
    ELSE IF gx = 11 THEN Lit(102999)
    ELSE FSub(Lit(16336), FMulInt(gx - 2, x_step))

\* "Special handling for x coordinates": x before rounding
x_inches(gx) ==
    IF gx = 1 THEN Lit(8039)
    ELSE IF gx = 11 THEN Lit(102999)
    ELSE FAdd(Lit(16336), FMulInt(gx - 2, x_step))

\* y_inches with the landmarks of rows 1 and 11 exchanged
y_inches_swapped(gy) ==
    IF gy = 1 THEN Lit(6020)
    ELSE IF gy = 11 THEN Lit(100980)
    ELSE IF gy <= 6 THEN FSub(Lit(92683), FMulInt(gy - 2, y_step))
    ELSE FSub(Lit(53500), FMulInt(gy - 6, y_step_lower))

\* "Special handling for y coordinates": y before rounding
y_inches(gy) ==
    IF gy = 1 THEN Lit(100980)
    ELSE IF gy = 11 THEN Lit(6020)
    ELSE IF gy <= 6 THEN FSub(Lit(92683), FMulInt(gy - 2, y_step))
    ELSE FSub(Lit(53500), FMulInt(gy - 6, y_step_lower))

Raise(e) == [status |-> e, coords |-> <<>>]

Return(c) == [status |-> "return", coords |-> c]

get_maze_coordinates(gx, gy) ==
    IF ~InRange(gx, gy) THEN Raise("ValueError")
    ELSE IF <<gx, gy>> \in DOMAIN reference_points
         THEN Return(<<Lit(reference_points[<<gx, gy>>][1]),
                       Lit(reference_points[<<gx, gy>>][2]), Z_HEIGHT>>)
         ELSE Return(<<round3(x_inches(gx)), round3(y_inches(gy)), Z_HEIGHT>>)

(***************************************************************************)
(* grid_images.log_message and grid_images.get_maze_coordinates (the       *)
(* second copy of the resolver, with logging).  A log entry is modelled by *)
(* its message; the "[timestamp] " prefix of the line is left out.         *)
(***************************************************************************)
\* log_message opening the file with mode "w": the entry replaces the file
log_message_truncating(lg, en, message, ok) ==
    IF ~en THEN lg
    ELSE IF ok THEN <<message>>
    ELSE lg

\* log_message(message): nothing when logging is disabled; otherwise the
\* entry is appended, or dropped silently when open/write raises (ok = FALSE)
log_message(lg, en, message, ok) ==
    IF ~en THEN lg
    ELSE IF ok THEN Append(lg, message)
    ELSE lg

\* f"get_maze_coordinates({grid_x}, {grid_y}) called"
MsgCalled(gx, gy) == [msg |-> "called", x |-> gx, y |-> gy, coords |-> <<>>]

\* f"ERROR: Invalid grid coordinates ({grid_x}, {grid_y})"
MsgInvalid(gx, gy) == [msg |-> "ERROR: Invalid grid coordinates",
                       x |-> gx, y |-> gy, coords |-> <<>>]

\* f"Calculated coordinates for ({grid_x}, {grid_y}): {coords}"
MsgCalculated(gx, gy, c) == [msg |-> "Calculated coordinates",
                             x |-> gx, y |-> gy, coords |-> c]

gi_InRange(gx, gy) == 0 <= gx /\ gx <= 12 /\ 0 <= gy /\ gy <= 12

gi_reference_points ==
    (<<1, 1>>   :> <<8039, 100980>>)  @@ (<<2, 2>>   :> <<16336, 92683>>) @@
    (<<6, 2>>   :> <<55519, 92683>>)  @@ (<<6, 6>>   :> <<55519, 53500>>) @@
    (<<10, 2>>  :> <<94702, 92683>>)  @@ (<<11, 1>>  :> <<102999, 100980>>) @@
    (<<2, 10>>  :> <<16336, 21973>>)  @@ (<<1, 11>>  :> <<8039, 6020>>) @@
    (<<11, 11>> :> <<102999, 6020>>)

gi_Z_HEIGHT == Lit(33577)

gi_x_step == FDivInt(FSub(Lit(94702), Lit(16336)), 8)

gi_y_step == FDivInt(FSub(Lit(92683), Lit(53500)), 4)

gi_y_step_lower == FDivInt(FSub(Lit(53500), Lit(21973)), 4)

gi_x_inches(gx) ==
    IF gx = 1 THEN Lit(8039)
    ELSE IF gx = 11 THEN Lit(102999)
    ELSE FAdd(Lit(16336), FMulInt(gx - 2, gi_x_step))

\* gi_y_inches of a copy without the pivot at row 6: one span for all rows
gi_y_inches_single_span(gy) ==
    IF gy = 1 THEN Lit(100980)
    ELSE IF gy = 11 THEN Lit(6020)
    ELSE FSub(Lit(92683), FMulInt(gy - 2, gi_y_step))

gi_y_inches(gy) ==
    IF gy = 1 THEN Lit(100980)
    ELSE IF gy = 11 THEN Lit(6020)
    ELSE IF gy <= 6 THEN FSub(Lit(92683), FMulInt(gy - 2, gi_y_step))
    ELSE FSub(Lit(53500), FMulInt(gy - 6, gi_y_step_lower))

\* The whole call: the outcome and the log it leaves.  ok1, ok2 tell whether
\* the first and the second log write of the call succeed.
gi_get_maze_coordinates(gx, gy, lg, en, ok1, ok2) ==
    LET lg1 == log_message(lg, en, MsgCalled(gx, gy), ok1)
    IN  IF ~gi_InRange(gx, gy)
        THEN [ret |-> Raise("ValueError"),
              log |-> log_message(lg1, en, MsgInvalid(gx, gy), ok2)]
        ELSE IF <<gx, gy>> \in DOMAIN gi_reference_points
        THEN [ret |-> Return(<<Lit(gi_reference_points[<<gx, gy>>][1]),
                               Lit(gi_reference_points[<<gx, gy>>][2]),
                               gi_Z_HEIGHT>>),
              log |-> lg1]
        ELSE LET coords == <<round3(gi_x_inches(gx)), round3(gi_y_inches(gy)),
                             gi_Z_HEIGHT>>
             IN  [ret |-> Return(coords),
                  log |-> log_message(lg1, en, MsgCalculated(gx, gy, coords), ok2)]

(***************************************************************************)
(* grid_images: what a script run (run -> capture_views -> perform_render) *)
(* is built from.  A log entry keeps the fixed text of the message and the *)
(* grid cell it is about; the formatted camera numbers are left out.       *)
(***************************************************************************)
\* log_message without its try/except: a failing write raises
log_message_unguarded(en, ok) == en /\ ~ok

\* does an exception leave log_message(message)?  Disabled logging returns at
\* once; a failing open/write is caught by "except Exception: pass"
log_message_raises(en, ok) ==
    IF ~en THEN FALSE
    ELSE IF ok THEN FALSE
    ELSE FALSE

\* consecutive log_message calls
RECURSIVE write_all(_, _, _, _)
write_all(lg, en, messages, ok) ==
    IF messages = <<>> THEN lg
    ELSE write_all(log_message(lg, en, Head(messages), ok), en, Tail(messages), ok)

Text(m) == [msg |-> m, x |-> 0, y |-> 0, coords |-> <<>>]

About(m, p) == [msg |-> m, x |-> p[1], y |-> p[2], coords |-> <<>>]

MsgCompleted == Text("=== Script completed successfully ===")

\* str(n) of a Python int, character by character
RECURSIVE Decimal(_)
Decimal(n) ==
    IF n < 0 THEN <<"-">> \o Decimal(0 - n)
    ELSE IF n < 10 THEN <<<<"0", "1", "2", "3", "4", "5", "6", "7", "8", "9">>[n + 1]>>
    ELSE Decimal(n \div 10) \o Decimal(n % 10)

\* the file name with grid_x and grid_y run together
filename_unseparated(gx, gy, direction_name, eye_name) ==
    <<"pos_">> \o Decimal(gx) \o Decimal(gy) \o <<"_", direction_name, "_", eye_name, ".png">>

\* f"pos_{grid_x}_{grid_y}_{direction_name}_left.png" (and _right.png): the
\* text of the name, the formatted numbers character by character; the
\* directory output_dir is the same for every render of a call
filename(gx, gy, direction_name, eye_name) ==
    <<"pos_">> \o Decimal(gx) \o <<"_">> \o Decimal(gy)
        \o <<"_", direction_name, "_", eye_name, ".png">>

\* the directions in alphabetical order
directions_sorted == <<"East", "North", "South", "West">>

\* the keys of the directions dict in insertion order, and their headings
directions == <<"East", "North", "West", "South">>

heading == [East |-> 0, North |-> 90, West |-> 180, South |-> 270]

\* perform_render's return value for the state seen when the loop ends
perform_render_result_always_true(state) == TRUE

perform_render_result(state) ==
    IF state = "Finished" THEN TRUE
    ELSE IF state = "Failed" THEN FALSE
    ELSE FALSE

\* a loop condition that no render state ends
StillRendering_any_state(state) == TRUE

\* the condition of perform_render's while loop
StillRendering(state) == state = "Processing" \/ state = "Queued"

(***************************************************************************)
(* set_capture.move_object_vertical.  The host design is modelled by the   *)
(* occurrences the search can inspect: the root's occurrences, and at each *)
(* further level the child occurrences of the first match of the level     *)
(* above.  An occurrence is its component name, the number N of its        *)
(* occurrence name "<component name>:N", isGrounded, and the z translation *)
(* of its transform in cm (the only part of the transform the function     *)
(* changes).                                                               *)
(***************************************************************************)
Occurrence(c, n, g) == [component |-> c, number |-> n, grounded |-> g, z |-> Lit(0)]

\* f":{barrier_number}" in occ.name, for a component name without ":<digit>":
\* the decimal digits of barrier_number start the digits of N (N < 100)
NameContainsNumber(n, barrier_number) ==
    n = barrier_number \/ (n >= 10 /\ n \div 10 = barrier_number)

\* index of the first occurrence of the loop that passes the test (matches
\* gives the test's value per index), 0 if the loop ends without a break
FirstMatch(matches) ==
    IF \E i \in DOMAIN matches : matches[i]
    THEN CHOOSE i \in DOMAIN matches :
            matches[i] /\ \A j \in 1..(i - 1) : ~matches[j]
    ELSE 0

ScOutcome(r, occ, box) == [ret |-> r, occurrences |-> occ, box |-> box]

\* move_object_vertical without the isGrounded check
move_object_vertical_ignores_grounded(design_ok, occ, a) ==
    IF ~design_ok THEN ScOutcome(FALSE, occ, "Failed")
    ELSE
    LET full    == FirstMatch([i \in DOMAIN occ.full |->
                                  occ.full[i].component = a.full_name])
        mid     == FirstMatch([i \in DOMAIN occ.mid |->
                                  occ.mid[i].component = a.mid_name])
        barrier == FirstMatch([i \in DOMAIN occ.barrier |->
                       /\ occ.barrier[i].component = a.barrier_name
                       /\ NameContainsNumber(occ.barrier[i].number, a.barrier_number)])
        target  == FirstMatch([i \in DOMAIN occ.saddle |->
                                  occ.saddle[i].component = a.saddle_name])
    IN  IF full = 0 THEN ScOutcome(FALSE, occ, "ERROR: Could not find Full Assembly")
        ELSE IF mid = 0 THEN ScOutcome(FALSE, occ, "ERROR: Could not find Mid Assembly")
        ELSE IF barrier = 0
             THEN ScOutcome(FALSE, occ, "ERROR: Could not find Barrier Assembly")
        ELSE IF target = 0
             THEN ScOutcome(FALSE, occ, "ERROR: Could not find Saddle Assembly")
        ELSE LET cm_to_move == FMulInt(a.inches_to_move, Lit(2540))
                 moved == [occ.saddle[target] EXCEPT
                              !.z = FAdd(occ.saddle[target].z, cm_to_move)]
             IN  ScOutcome(TRUE,
                           [occ EXCEPT !.saddle = [occ.saddle EXCEPT ![target] = moved]],
                           "")

\* The whole call.  design_ok = FALSE: app.activeProduct is None, so
\* design.rootComponent raises and the bare except returns False after a
\* message box.
move_object_vertical(design_ok, occ, a) ==
    IF ~design_ok THEN ScOutcome(FALSE, occ, "Failed")
    ELSE
    LET full    == FirstMatch([i \in DOMAIN occ.full |->
                                  occ.full[i].component = a.full_name])
        mid     == FirstMatch([i \in DOMAIN occ.mid |->
                                  occ.mid[i].component = a.mid_name])
        barrier == FirstMatch([i \in DOMAIN occ.barrier |->
                       /\ occ.barrier[i].component = a.barrier_name
                       /\ NameContainsNumber(occ.barrier[i].number, a.barrier_number)])
        target  == FirstMatch([i \in DOMAIN occ.saddle |->
                                  occ.saddle[i].component = a.saddle_name])
    IN  IF full = 0 THEN ScOutcome(FALSE, occ, "ERROR: Could not find Full Assembly")
        ELSE IF mid = 0 THEN ScOutcome(FALSE, occ, "ERROR: Could not find Mid Assembly")
        ELSE IF barrier = 0
             THEN ScOutcome(FALSE, occ, "ERROR: Could not find Barrier Assembly")
        ELSE IF target = 0
             THEN ScOutcome(FALSE, occ, "ERROR: Could not find Saddle Assembly")
        ELSE IF occ.saddle[target].grounded
             THEN ScOutcome(FALSE, occ,
                            "ERROR: The target occurrence is grounded and cannot be moved.")
        ELSE LET cm_to_move == FMulInt(a.inches_to_move, Lit(2540))
                 moved == [occ.saddle[target] EXCEPT
                              !.z = FAdd(occ.saddle[target].z, cm_to_move)]
             IN  ScOutcome(TRUE,
                           [occ EXCEPT !.saddle = [occ.saddle EXCEPT ![target] = moved]],
                           "")

(***************************************************************************)
(* The state machines.                                                     *)
(***************************************************************************)
NoCall == [status |-> "none", coords |-> <<>>]

TestingIdle ==
    /\ grid_x = 0
    /\ grid_y = 0
    /\ result = NoCall

GridImagesIdle ==
    /\ enable_logging = TRUE
    /\ gi_x = 0
    /\ gi_y = 0
    /\ gi_result = NoCall
    /\ log = <<>>
    /\ calls = 0

\* the component names get_assembly_path builds, and one that is none of them
FullName == "Full Assembly v20"

CenterName == "Center Assembly v22"

SideName == "Side Assembly v24"

BarrierName == "New Barrier Assembly v41"

SaddleName == "Barrier: Saddle and Plexiglass Assembly v13"

OtherName == "Maze Floor v3"

\* the designs drawn: the occurrence lists of each level
FullLists ==
    { <<>>, <<Occurrence(OtherName, 1, FALSE)>>, <<Occurrence(FullName, 1, FALSE)>>,
      <<Occurrence(OtherName, 1, FALSE), Occurrence(FullName, 1, FALSE)>> }

MidLists ==
    { <<>>, <<Occurrence(SideName, 1, FALSE)>>, <<Occurrence(CenterName, 1, FALSE)>>,
      <<Occurrence(SideName, 1, FALSE), Occurrence(CenterName, 1, FALSE)>> }

BarrierLists ==
    { <<>>,
      <<Occurrence(OtherName, 1, FALSE)>>,
      <<Occurrence(BarrierName, 2, FALSE)>>,
      <<Occurrence(BarrierName, 1, FALSE)>>,
      <<Occurrence(BarrierName, 2, FALSE), Occurrence(BarrierName, 1, FALSE)>>,
      <<Occurrence(BarrierName, 12, FALSE), Occurrence(BarrierName, 1, FALSE)>> }

SaddleLists ==
    { <<>>,
      <<Occurrence(OtherName, 1, FALSE)>>,
      <<Occurrence(SaddleName, 1, FALSE)>>,
      <<Occurrence(SaddleName, 1, TRUE)>>,
      <<Occurrence(OtherName, 1, FALSE), Occurrence(SaddleName, 2, FALSE)>>,
      <<Occurrence(SaddleName, 1, TRUE), Occurrence(SaddleName, 2, FALSE)>> }

SetCaptureIdle ==
    /\ sc_design = TRUE
    /\ occurrences = [full |-> <<>>, mid |-> <<>>, barrier |-> <<>>, saddle |-> <<>>]
    /\ sc_args = [full_name |-> FullName, mid_name |-> CenterName,
                  barrier_name |-> BarrierName, saddle_name |-> SaddleName,
                  inches_to_move |-> 16, barrier_number |-> 1]
    /\ sc_ret = "none"
    /\ sc_boxes = <<>>

\* no runner script is being executed
\* no position has been computed and calculate_eye_positions was not called
EyesIdle ==
    /\ eyes_script = "grid_images.py"
    /\ eyes_cell = <<6, 6>>
    /\ position = <<>>
    /\ eyes_heading = 0
    /\ left_eye = <<>>
    /\ right_eye = <<>>

RunnerIdle ==
    /\ runner_script = "temp_runner.py"
    /\ runner_pc = "idle"
    /\ active_document = FALSE
    /\ retries = 0
    /\ runner_boxes = <<>>
    /\ loaded = FALSE
    /\ run_calls = 0

\* no script run: nothing started, the module's settings as configured
NothingStarted ==
    /\ pos_index = 0
    /\ dir_index = 0
    /\ eye = "left"
    /\ render_state = "none"
    /\ polls = 0
    /\ render_result = FALSE
    /\ renders = <<>>
    /\ exit_code = 0
    /\ failures = 0
    /\ ui_boxes = <<>>

CaptureIdle ==
    /\ exit_on_error = TRUE
    /\ log_ok = TRUE
    /\ grid_positions = <<>>
    /\ pc = "idle"
    /\ NothingStarted

\* a caller of testing.get_maze_coordinates, before its first call
Init == TestingIdle /\ GridImagesIdle /\ SetCaptureIdle /\ CaptureIdle /\ RunnerIdle
        /\ EyesIdle

\* one call testing.get_maze_coordinates(x, y)
Call(x, y) ==
    /\ grid_x' = x
    /\ grid_y' = y
    /\ result' = get_maze_coordinates(x, y)
    /\ UNCHANGED gi_vars
    /\ UNCHANGED sc_vars
    /\ UNCHANGED cap_vars
    /\ UNCHANGED runner_vars
    /\ UNCHANGED eyes_vars

Next == \E x \in Inputs, y \in Inputs : Call(x, y)

Spec == Init /\ [][Next]_vars

\* a caller of grid_images.get_maze_coordinates: the configuration and the
\* arguments are drawn before the first call
InitGridImages ==
    /\ TestingIdle
    /\ enable_logging \in BOOLEAN
    /\ gi_x \in Inputs
    /\ gi_y \in Inputs
    /\ gi_result = NoCall
    /\ log = <<>>
    /\ calls = 0
    /\ SetCaptureIdle
    /\ CaptureIdle
    /\ RunnerIdle
    /\ EyesIdle

\* one call grid_images.get_maze_coordinates(gi_x, gi_y)
GridImagesCall ==
    /\ calls < MaxCalls
    /\ \E ok1 \in BOOLEAN, ok2 \in BOOLEAN :
          LET r == gi_get_maze_coordinates(gi_x, gi_y, log, enable_logging, ok1, ok2)
          IN  /\ gi_result' = r.ret
              /\ log' = r.log
    /\ calls' = calls + 1
    /\ UNCHANGED <<enable_logging, gi_x, gi_y>>
    /\ UNCHANGED testing_vars
    /\ UNCHANGED sc_vars
    /\ UNCHANGED cap_vars
    /\ UNCHANGED runner_vars
    /\ UNCHANGED eyes_vars

NextGridImages == GridImagesCall

SpecGridImages == InitGridImages /\ [][NextGridImages]_vars

(***************************************************************************)
(* Properties of testing.get_maze_coordinates, checked under Spec.         *)
(***************************************************************************)
Called == result.status # "none"

Returned == result.status = "return"

\* the reference table as the specification tabulates it:
\* <<x, y, x_inches * 1000, y_inches * 1000>>
ReferenceCells ==
    { <<1, 1, 8039, 100980>>,  <<2, 2, 16336, 92683>>,  <<6, 2, 55519, 92683>>,
      <<6, 6, 55519, 53500>>,  <<10, 2, 94702, 92683>>, <<11, 1, 102999, 100980>>,
      <<2, 10, 16336, 21973>>, <<1, 11, 8039, 6020>>,   <<11, 11, 102999, 6020>> }

IsReferenceCell(x, y) == \E t \in ReferenceCells : t[1] = x /\ t[2] = y

\* C1: for each of the nine cells of the reference table the call returns
\* exactly the tabulated (x_inches, y_inches) paired with 33.577,
\* e.g. (6, 6) -> (55.519, 53.50, 33.577).
C1_ReferenceCellsExact ==
    \A t \in ReferenceCells :
        (Called /\ grid_x = t[1] /\ grid_y = t[2])
            => result = [status |-> "return",
                         coords |-> <<Lit(t[3]), Lit(t[4]), Lit(33577)>>]

C1_Witness ==
    /\ grid_x = 6
    /\ grid_y = 6
    /\ result = [status |-> "return",
                 coords |-> <<Lit(55519), Lit(53500), Lit(33577)>>]

\* C2: a call with grid_x or grid_y outside 0..12 fails with ValueError and
\* returns no coordinate; a call inside the range returns a coordinate
\* triple and does not raise.
C2_OutOfRangeRaises ==
    Called =>
        IF grid_x \in 0..12 /\ grid_y \in 0..12
        THEN result.status = "return" /\ Len(result.coords) = 3
        ELSE result.status = "ValueError" /\ result.coords = <<>>

C2_Witness ==
    /\ grid_x = 13
    /\ grid_y = 5
    /\ result.status = "ValueError"

\* C3: for every valid y, a call with grid_x = 1 returns x_inches = 8.039 and
\* a call with grid_x = 11 returns x_inches = 102.999.
C3_BoundaryColumns ==
    (Called /\ grid_y \in 0..12) =>
        /\ grid_x = 1 => result.coords[1] = Lit(8039)
        /\ grid_x = 11 => result.coords[1] = Lit(102999)

C3_Witness ==
    /\ grid_x = 1
    /\ grid_y = 5
    /\ Returned
    /\ result.coords[1] = Lit(8039)

\* C4: for every valid x, a call with grid_y = 1 returns y_inches = 100.98 and
\* a call with grid_y = 11 returns y_inches = 6.02.
C4_BoundaryRows ==
    (Called /\ grid_x \in 0..12) =>
        /\ grid_y = 1 => result.coords[2] = Lit(100980)
        /\ grid_y = 11 => result.coords[2] = Lit(6020)

C4_Witness ==
    /\ grid_x = 7
    /\ grid_y = 11
    /\ Returned
    /\ result.coords[2] = Lit(6020)

\* a <= b for floats
FLeq(a, b) ==
    IF a.neg /\ ~b.neg THEN TRUE
    ELSE IF ~a.neg /\ b.neg THEN a.mag = MagZero /\ b.mag = MagZero
    ELSE IF a.neg THEN ~MagLess(a.mag, b.mag)
    ELSE ~MagLess(b.mag, a.mag)

\* the integer nearest to n / d (d > 0), a tie going to the even integer
RoundHalfEven(n, d) ==
    LET q  == Abs(n) \div d
        r  == Abs(n) % d
        up == 2 * r > d \/ (2 * r = d /\ q % 2 = 1)
        m  == IF up THEN q + 1 ELSE q
    IN  IF n < 0 THEN 0 - m ELSE m

\* the integer nearest to n / d (d > 0), a tie going away from zero
RoundHalfUp(n, d) ==
    LET m == (2 * Abs(n) + d) \div (2 * d)
    IN  IF n < 0 THEN 0 - m ELSE m

\* 8000 * (16.336 + (gx - 2) * (94.702 - 16.336) / 8), exactly
ExactX8000(gx) == 8 * 16336 + (gx - 2) * (94702 - 16336)

\* 4000 * y of the piecewise rule with the pivot at row 6, exactly
ExactY4000(gy) ==
    IF gy <= 6 THEN 4 * 92683 - (gy - 2) * (92683 - 53500)
    ELSE 4 * 53500 - (gy - 6) * (53500 - 21973)

InterpolatedColumn ==
    Called /\ grid_x \in 0..12 /\ grid_y \in 0..12 /\ grid_x \notin {1, 11}

\* C5 as stated: in every valid cell whose column is neither 1 nor 11 the
\* returned x_inches is 16.336 + (grid_x - 2) * 9.79575 rounded to 3 decimals
\* (a halfway value rounded to the even neighbour or away from zero).
C5_Original ==
    InterpolatedColumn =>
        \/ result.coords[1] = Lit(RoundHalfEven(ExactX8000(grid_x), 8))
        \/ result.coords[1] = Lit(RoundHalfUp(ExactX8000(grid_x), 8))

\* x_inches * 1000 as returned: the halfway values of columns 0, 4, 8 and 12
\* (-3.2555, 35.9275, 75.1105, 114.2935) go where the binary evaluation puts
\* them, every other value to its one nearest multiple of 0.001
XMilli(gx) ==
    IF gx = 0 THEN 0 - 3256
    ELSE IF gx = 4 THEN 35927
    ELSE IF gx = 8 THEN 75111
    ELSE IF gx = 12 THEN 114293
    ELSE RoundHalfEven(ExactX8000(gx), 8)

\* C5 (amended): in every valid cell whose column is neither 1 nor 11 the
\* returned x_inches is a multiple of 0.001 nearest to the exact value
\* 16.336 + (grid_x - 2) * 9.79575, whatever grid_y; the halfway values of
\* columns 0, 4, 8, 12 are returned as -3.256, 35.927, 75.111, 114.293.
C5_NearestMilliX ==
    InterpolatedColumn =>
        /\ result.coords[1] = Lit(XMilli(grid_x))
        /\ Abs(8 * XMilli(grid_x) - ExactX8000(grid_x)) <= 4

C5_Witness ==
    /\ grid_x = 4
    /\ grid_y = 5
    /\ Returned
    /\ result.coords[1] = Lit(35927)
    /\ ExactX8000(4) = 8 * 35927 + 4

InterpolatedRow ==
    /\ Called
    /\ grid_x \in 0..12
    /\ grid_y \in 2..10
    /\ ~IsReferenceCell(grid_x, grid_y)

\* C6 as stated: in every valid non-reference cell of rows 2..10 the returned
\* y_inches is 92.683 - (grid_y - 2) * 9.79575 (rows 2..6) or
\* 53.50 - (grid_y - 6) * 7.88175 (rows 7..10) rounded to 3 decimals
\* (a halfway value rounded to the even neighbour or away from zero).
C6_Original ==
    InterpolatedRow =>
        \/ result.coords[2] = Lit(RoundHalfEven(ExactY4000(grid_y), 4))
        \/ result.coords[2] = Lit(RoundHalfUp(ExactY4000(grid_y), 4))

\* y_inches * 1000 as returned in rows 2..10: the halfway values of rows 4
\* and 8 (73.0915, 37.7365) go where the binary evaluation puts them
YMilli(gy) ==
    IF gy = 4 THEN 73091
    ELSE IF gy = 8 THEN 37736
    ELSE RoundHalfEven(ExactY4000(gy), 4)

\* C6 (amended): in every valid non-reference cell of rows 2..10 the returned
\* y_inches is a multiple of 0.001 nearest to the exact value of the
\* piecewise rule with the pivot at row 6, whatever grid_x; the halfway
\* values of rows 4 and 8 are returned as 73.091 and 37.736.
C6_NearestMilliY ==
    InterpolatedRow =>
        /\ result.coords[2] = Lit(YMilli(grid_y))
        /\ Abs(4 * YMilli(grid_y) - ExactY4000(grid_y)) <= 2

C6_Witness ==
    /\ grid_x = 3
    /\ grid_y = 4
    /\ Returned
    /\ result.coords[2] = Lit(73091)
    /\ ExactY4000(4) = 4 * 73091 + 2

\* C7: within a row y of 2..10, a call in a column further right (columns
\* 2..10, reference cells included) never returns a smaller x_inches.
C7_MonotoneInX ==
    [][ ( /\ Returned
          /\ Returned'
          /\ grid_y \in 2..10
          /\ grid_y' = grid_y
          /\ grid_x \in 2..10
          /\ grid_x' \in 2..10
          /\ grid_x <= grid_x' )
        => FLeq(result.coords[1], result'.coords[1]) ]_vars

C7_Witness ==
    /\ grid_x = 10
    /\ grid_y = 2
    /\ Returned
    /\ FLeq(Lit(55519), result.coords[1])
    /\ result.coords[1] # Lit(55519)

\* C8: the interpolation is exact at the span endpoints: (10, 6) returns
\* (94.702, 53.50, 33.577); a non-reference cell of column 2 or 10 gets
\* x = 16.336 or 94.702, one of row 2, 6 or 10 gets y = 92.683, 53.50 or 21.973.
C8_EndpointsExact ==
    (Called /\ grid_x \in 0..12 /\ grid_y \in 0..12) =>
        /\ (grid_x = 10 /\ grid_y = 6) =>
              result = [status |-> "return",
                        coords |-> <<Lit(94702), Lit(53500), Lit(33577)>>]
        /\ ~IsReferenceCell(grid_x, grid_y) =>
              /\ grid_x = 2 => result.coords[1] = Lit(16336)
              /\ grid_x = 10 => result.coords[1] = Lit(94702)
              /\ grid_y = 2 => result.coords[2] = Lit(92683)
              /\ grid_y = 6 => result.coords[2] = Lit(53500)
              /\ grid_y = 10 => result.coords[2] = Lit(21973)

C8_Witness ==
    /\ grid_x = 10
    /\ grid_y = 6
    /\ ~IsReferenceCell(grid_x, grid_y)
    /\ result = [status |-> "return",
                 coords |-> <<Lit(94702), Lit(53500), Lit(33577)>>]

\* C9: every call with a valid cell, reference or interpolated, returns
\* 33.577 as the third component.
C9_ConstantZ ==
    (Called /\ grid_x \in 0..12 /\ grid_y \in 0..12) =>
        result.coords[3] = Lit(33577)

C9_Witness ==
    /\ grid_x = 3
    /\ grid_y = 7
    /\ ~IsReferenceCell(grid_x, grid_y)
    /\ Returned
    /\ result.coords[3] = Lit(33577)

\* 8000 * the exact x of the cell: the landmark of column 1 or 11, else the
\* interpolation formula
ExactXAny8000(gx) ==
    IF gx = 1 THEN 8 * 8039
    ELSE IF gx = 11 THEN 8 * 102999
    ELSE ExactX8000(gx)

\* 4000 * the exact y of the cell: the landmark of row 1 or 11, else the
\* piecewise formula
ExactYAny4000(gy) ==
    IF gy = 1 THEN 4 * 100980
    ELSE IF gy = 11 THEN 4 * 6020
    ELSE ExactY4000(gy)

\* f is the float of a multiple m * 0.001 with |m * 0.001 - n / (1000 * d)|
\* at most 0.0005; only the two multiples around n / d can qualify
WithinHalfMilli(f, n, d) ==
    \E m \in {n \div d, (n \div d) + 1} :
        f = Lit(m) /\ 2 * Abs(d * m - n) <= d

\* C11: in every valid non-reference cell the returned x_inches and y_inches
\* are multiples of 0.001 at most 0.0005 away from the exact value of the
\* formula or landmark; the values of a reference cell are the tabulated
\* literals themselves.
C11_RoundedToMilli ==
    (Called /\ grid_x \in 0..12 /\ grid_y \in 0..12) =>
        IF IsReferenceCell(grid_x, grid_y)
        THEN \E t \in ReferenceCells :
                /\ t[1] = grid_x /\ t[2] = grid_y
                /\ result.coords[1] = Lit(t[3])
                /\ result.coords[2] = Lit(t[4])
        ELSE /\ WithinHalfMilli(result.coords[1], ExactXAny8000(grid_x), 8)
             /\ WithinHalfMilli(result.coords[2], ExactYAny4000(grid_y), 4)

\* a cell whose exact x (114.2935) and y (112.2745) both lie halfway
C11_Witness ==
    /\ grid_x = 12
    /\ grid_y = 0
    /\ Returned
    /\ result.coords[1] = Lit(114293)
    /\ result.coords[2] = Lit(112275)

(***************************************************************************)
(* Properties of grid_images.get_maze_coordinates, checked under           *)
(* SpecGridImages.                                                         *)
(***************************************************************************)
\* the messages a call with the arguments (x, y) may log
CallMessages(x, y) ==
    {m \in {"called", "ERROR: Invalid grid coordinates", "Calculated coordinates"} :
        /\ m = "ERROR: Invalid grid coordinates" => ~(x \in 0..12 /\ y \in 0..12)
        /\ m = "Calculated coordinates" =>
              (x \in 0..12 /\ y \in 0..12 /\ ~IsReferenceCell(x, y))}

C13_CopiesAgree ==
    calls > 0 => gi_result = get_maze_coordinates(gi_x, gi_y)

C13_Witness ==
    /\ calls > 0
    /\ gi_x = 9
    /\ gi_y = 8
    /\ gi_result.status = "return"
    /\ gi_result = get_maze_coordinates(9, 8)
    /\ gi_result.coords[2] = Lit(37736)

(***************************************************************************)
(* set_capture: a design and the arguments are drawn, then                 *)
(* move_object_vertical is called once.                                    *)
(***************************************************************************)
InitSetCapture ==
    /\ TestingIdle
    /\ GridImagesIdle
    /\ sc_design \in BOOLEAN
    /\ occurrences \in [full : FullLists, mid : MidLists,
                        barrier : BarrierLists, saddle : SaddleLists]
    /\ sc_args \in [full_name : {FullName}, mid_name : {CenterName, SideName},
                    barrier_name : {BarrierName}, saddle_name : {SaddleName},
                    inches_to_move : {16, 0 - 16}, barrier_number : {1, 2}]
    /\ sc_ret = "none"
    /\ sc_boxes = <<>>
    /\ CaptureIdle
    /\ RunnerIdle
    /\ EyesIdle

MoveObjectVertical ==
    /\ sc_ret = "none"
    /\ LET r == move_object_vertical(sc_design, occurrences, sc_args)
       IN  /\ sc_ret' = IF r.ret THEN "True" ELSE "False"
           /\ occurrences' = r.occurrences
           /\ sc_boxes' = IF r.box = "" THEN sc_boxes ELSE Append(sc_boxes, r.box)
    /\ UNCHANGED <<sc_design, sc_args>>
    /\ UNCHANGED testing_vars
    /\ UNCHANGED gi_vars
    /\ UNCHANGED cap_vars
    /\ UNCHANGED runner_vars
    /\ UNCHANGED eyes_vars

NextSetCapture == MoveObjectVertical

SpecSetCapture == InitSetCapture /\ [][NextSetCapture]_vars

\* the occurrence o of the barrier level is the one the arguments name
IsNamedBarrier(o) ==
    /\ o.component = sc_args.barrier_name
    /\ \E k \in {0, 1, 2, 3, 4, 5, 6, 7, 8, 9} :
          o.number = sc_args.barrier_number
              \/ o.number = 10 * sc_args.barrier_number + k

\* C16: move_object_vertical returns True only when the full assembly, the
\* mid assembly, the barrier assembly whose occurrence name contains
\* ":<barrier_number>" and a saddle occurrence that is not grounded are all
\* found; whenever it returns False no occurrence transform has changed.
C16_MoveOnlyWhenFound ==
    [][ /\ sc_ret' = "True" =>
              /\ sc_design
              /\ \E i \in DOMAIN occurrences.full :
                    occurrences.full[i].component = sc_args.full_name
              /\ \E i \in DOMAIN occurrences.mid :
                    occurrences.mid[i].component = sc_args.mid_name
              /\ \E i \in DOMAIN occurrences.barrier :
                    IsNamedBarrier(occurrences.barrier[i])
              /\ \E i \in DOMAIN occurrences.saddle :
                    /\ occurrences.saddle[i].component = sc_args.saddle_name
                    /\ ~occurrences.saddle[i].grounded
                    /\ \A j \in 1..(i - 1) :
                          occurrences.saddle[j].component # sc_args.saddle_name
        /\ sc_ret' = "False" => occurrences' = occurrences ]_vars

\* a successful move: the second saddle occurrence went up by 16 * 2.54 cm
C16_Witness ==
    /\ sc_ret = "True"
    /\ Len(occurrences.saddle) = 2
    /\ occurrences.saddle[1].z = Lit(0)
    /\ occurrences.saddle[2].z = Lit(40640)
    /\ Len(occurrences.barrier) = 2
    /\ occurrences.barrier[1].number = 12

(***************************************************************************)
(* grid_images: one script run.  run(context) calls capture_views, which   *)
(* resolves each position, and for each direction sets up and performs the *)
(* left-eye and the right-eye render; perform_render polls the host.  The  *)
(* host decides whether a design is active, whether the Render workspace   *)
(* exists, whether render setup or startLocalRender raise, and how the     *)
(* render state evolves; it produces at most MaxFailures failures.  While  *)
(* a render is queued or processing the host reports progress 0, so the    *)
(* loop's progress entry (line 258) is not written.  The ui object is      *)
(* always present (ui.messageBox is called unguarded at 301, 366, 383).    *)
(* Each program step takes the outcome ok of its log writes as seen by the *)
(* control flow; the run itself uses log_ok.                               *)
(***************************************************************************)
MaxPolls == 2

MaxFailures == 1

\* the lists of grid positions drawn; <<13, 5>> is out of range
PositionLists ==
    { <<>>, << <<3, 2>> >>, << <<13, 5>> >>,
      << <<3, 2>>, <<1, 1>> >>, << <<3, 2>>, <<13, 5>> >>,
      << <<1, 11>>, <<11, 1>> >> }

InitCapture ==
    /\ TestingIdle
    /\ SetCaptureIdle
    /\ enable_logging = TRUE
    /\ gi_x = 0
    /\ gi_y = 0
    /\ gi_result = NoCall
    /\ log = <<>>
    /\ calls = 0
    /\ exit_on_error \in BOOLEAN
    /\ log_ok \in BOOLEAN
    /\ grid_positions \in PositionLists
    /\ pc = "run"
    /\ NothingStarted
    /\ RunnerIdle
    /\ EyesIdle

\* a program step that calls log_message for each of the messages: were an
\* exception to leave log_message, every handler on the way out would raise
\* again at its own first log_message call and the script would crash
Logged(ok, messages, Effect) ==
    /\ IF messages # <<>> /\ log_message_raises(enable_logging, ok)
       THEN /\ pc' = "crashed"
            /\ UNCHANGED <<pos_index, dir_index, eye, render_state, polls,
                           render_result, renders, exit_code, failures, ui_boxes,
                           gi_x, gi_y, gi_result>>
       ELSE Effect
    /\ log' = write_all(log, enable_logging, messages, log_ok)
    /\ UNCHANGED <<enable_logging, calls, exit_on_error, log_ok, grid_positions>>
    /\ UNCHANGED testing_vars
    /\ UNCHANGED sc_vars
    /\ UNCHANGED runner_vars
    /\ UNCHANGED eyes_vars

\* "if exit_on_error: sys.exit(1)" followed by capture_views returning: the
\* SystemExit passes every "except Exception"; after a return run goes on to
\* line 462
Leave(boxes) ==
    /\ pc' = IF exit_on_error THEN "exited" ELSE "done"
    /\ exit_code' = IF exit_on_error THEN 1 ELSE exit_code
    /\ ui_boxes' = ui_boxes \o boxes

LeaveMessages == IF exit_on_error THEN <<>> ELSE <<MsgCompleted>>

\* the failure handling of the direction loop without "sys.exit(1)"
SkipDirection_never_exits(boxes) ==
    /\ pc' = "direction"
    /\ exit_code' = exit_code
    /\ dir_index' = dir_index + 1
    /\ ui_boxes' = ui_boxes \o boxes

\* the failure handling of the direction loop with "break" for "continue"
SkipDirection_breaks(boxes) ==
    /\ pc' = IF exit_on_error THEN "exited" ELSE "direction"
    /\ exit_code' = IF exit_on_error THEN 1 ELSE exit_code
    /\ dir_index' = IF exit_on_error THEN dir_index ELSE Len(directions) + 1
    /\ ui_boxes' = ui_boxes \o boxes

\* "if exit_on_error: sys.exit(1)" followed by "continue" in the loop over
\* the directions
SkipDirection(boxes) ==
    /\ pc' = IF exit_on_error THEN "exited" ELSE "direction"
    /\ exit_code' = IF exit_on_error THEN 1 ELSE exit_code
    /\ dir_index' = IF exit_on_error THEN dir_index ELSE dir_index + 1
    /\ ui_boxes' = ui_boxes \o boxes

\* run up to the call of capture_views and its first log entry
RunStart(ok) ==
    /\ pc = "run"
    /\ Logged(ok, <<Text("=== Script started ==="), Text("Using output directory"),
                    Text("Starting capture_views")>>,
              /\ pc' = "design"
              /\ UNCHANGED <<pos_index, dir_index, eye, render_state, polls,
                             render_result, renders, exit_code, failures, ui_boxes,
                             gi_x, gi_y, gi_result>>)

\* capture_views, lines 298-309
CheckDesign(ok) ==
    /\ pc = "design"
    /\ \E design \in BOOLEAN, exists \in BOOLEAN :
          IF ~design
          THEN /\ exists
               /\ failures < MaxFailures
               /\ Logged(ok, <<Text("ERROR: No active Fusion design")>> \o LeaveMessages,
                         /\ Leave(<<"No active Fusion design.">>)
                         /\ failures' = failures + 1
                         /\ UNCHANGED <<pos_index, dir_index, eye, render_state, polls,
                                        render_result, renders, gi_x, gi_y, gi_result>>)
          ELSE Logged(ok, IF exists THEN <<>> ELSE <<Text("Creating output directory")>>,
                      /\ pc' = "workspace"
                      /\ UNCHANGED <<pos_index, dir_index, eye, render_state, polls,
                                     render_result, renders, exit_code, failures,
                                     ui_boxes, gi_x, gi_y, gi_result>>)

\* capture_views, lines 312-333, with switch_to_render_workspace
SwitchWorkspace(ok) ==
    /\ pc = "workspace"
    /\ \E workspace \in {"missing", "inactive", "active"} :
          IF workspace = "missing"
          THEN /\ failures < MaxFailures
               /\ Logged(ok, <<Text("Attempting to switch to Render workspace"),
                               Text("ERROR: Render workspace not found"),
                               Text("Failed to switch to Render workspace, aborting")>>
                             \o LeaveMessages,
                         /\ Leave(<<"Render workspace not found.">>)
                         /\ failures' = failures + 1
                         /\ UNCHANGED <<pos_index, dir_index, eye, render_state, polls,
                                        render_result, renders, gi_x, gi_y, gi_result>>)
          ELSE Logged(ok, <<Text("Attempting to switch to Render workspace")>>
                          \o (IF workspace = "inactive"
                              THEN <<Text("Activating Render workspace")>> ELSE <<>>)
                          \o <<Text("Successfully switched to Render workspace"),
                               Text("Using constants")>>,
                      /\ pc' = "position"
                      /\ pos_index' = 1
                      /\ UNCHANGED <<dir_index, eye, render_state, polls, render_result,
                                     renders, exit_code, failures, ui_boxes,
                                     gi_x, gi_y, gi_result>>)

\* capture_views, lines 336-347: the next position, or the end of the list,
\* where capture_views returns and run writes its last entry (line 462).  The
\* resolver is called once: call.ret is its outcome and call.log the entries
\* it writes when every write succeeds.  Its ValueError is caught at 411.
NextPosition(ok) ==
    /\ pc = "position"
    /\ IF pos_index > Len(grid_positions)
       THEN Logged(ok, <<MsgCompleted>>,
                   /\ pc' = "done"
                   /\ UNCHANGED <<pos_index, dir_index, eye, render_state, polls,
                                  render_result, renders, exit_code, failures, ui_boxes,
                                  gi_x, gi_y, gi_result>>)
       ELSE \E p \in {grid_positions[pos_index]} :
            \E call \in {gi_get_maze_coordinates(p[1], p[2], <<>>, TRUE, TRUE, TRUE)} :
                IF call.ret.status = "return"
                THEN Logged(ok, <<About("Processing grid position", p)>>
                                \o call.log
                                \o <<About("Position in cm", p)>>,
                            /\ pc' = "direction"
                            /\ dir_index' = 1
                            /\ gi_x' = p[1]
                            /\ gi_y' = p[2]
                            /\ gi_result' = call.ret
                            /\ UNCHANGED <<pos_index, eye, render_state, polls,
                                           render_result, renders, exit_code, failures,
                                           ui_boxes>>)
                ELSE Logged(ok, <<About("Processing grid position", p)>>
                                \o call.log
                                \o <<About("ERROR in capture_views", p)>>
                                \o LeaveMessages,
                            /\ Leave(<<"Failed:">>)
                            /\ gi_x' = p[1]
                            /\ gi_y' = p[2]
                            /\ gi_result' = call.ret
                            /\ UNCHANGED <<pos_index, dir_index, eye, render_state, polls,
                                           render_result, renders, failures>>)

\* capture_views, lines 350-361: the next direction, or the end of the loop
NextDirection(ok) ==
    /\ pc = "direction"
    /\ IF dir_index > Len(directions)
       THEN Logged(ok, <<>>,
                   /\ pc' = "position"
                   /\ pos_index' = pos_index + 1
                   /\ UNCHANGED <<dir_index, eye, render_state, polls, render_result,
                                  renders, exit_code, failures, ui_boxes,
                                  gi_x, gi_y, gi_result>>)
       ELSE Logged(ok, <<About("Processing direction", grid_positions[pos_index]),
                         About("Eye positions", grid_positions[pos_index]),
                         Text("Setting up left eye render")>>,
                   /\ pc' = "setup"
                   /\ eye' = "left"
                   /\ UNCHANGED <<pos_index, dir_index, render_state, polls,
                                  render_result, renders, exit_code, failures, ui_boxes,
                                  gi_x, gi_y, gi_result>>)

\* setup_render_settings (204-240) and its caller's test (364-369, 391-396)
SetupRender(ok) ==
    /\ pc = "setup"
    /\ \E outcome \in {"configured", "no design", "exception"} :
          IF outcome = "configured"
          THEN Logged(ok, <<Text("Setting up render with dimensions"),
                            Text("Render settings configured successfully")>>,
                      /\ pc' = "start"
                      /\ UNCHANGED <<pos_index, dir_index, eye, render_state, polls,
                                     render_result, renders, exit_code, failures,
                                     ui_boxes, gi_x, gi_y, gi_result>>)
          ELSE /\ failures < MaxFailures
               /\ Logged(ok, <<Text("Setting up render with dimensions"),
                               Text(IF outcome = "no design"
                                    THEN "ERROR: No active Fusion design found"
                                    ELSE "ERROR in setup_render_settings")>>
                             \o (IF exit_on_error THEN <<>>
                                 ELSE <<About("Failed to initialize rendering",
                                              grid_positions[pos_index])>>),
                         /\ SkipDirection(
                               <<IF outcome = "no design"
                                 THEN "No active Fusion design found."
                                 ELSE "Failed to setup render settings">>
                               \o (IF exit_on_error THEN <<>>
                                   ELSE <<"Failed to initialize rendering">>))
                         /\ failures' = failures + 1
                         /\ UNCHANGED <<pos_index, eye, render_state, polls,
                                        render_result, renders, gi_x, gi_y, gi_result>>)

\* lines 372-380 (398-403) and perform_render up to the loop (247-253); an
\* exception of startLocalRender is handled at 275-283
StartRender(ok) ==
    /\ pc = "start"
    /\ \E raises \in BOOLEAN :
          LET p == grid_positions[pos_index]
              before == <<About(IF eye = "left" THEN "Left eye target"
                                ELSE "Right eye target", p),
                          About("Starting render to file", p)>>
          IN  IF ~raises
              THEN Logged(ok, before \o <<Text("Render initiated, waiting for completion")>>,
                          /\ pc' = "poll"
                          /\ renders' = Append(renders,
                                 <<p[1], p[2], directions[dir_index], eye>>)
                          /\ render_state' = "Queued"
                          /\ polls' = 0
                          /\ UNCHANGED <<pos_index, dir_index, eye, render_result,
                                         exit_code, failures, ui_boxes,
                                         gi_x, gi_y, gi_result>>)
              ELSE /\ failures < MaxFailures
                   /\ Logged(ok, before \o <<Text("ERROR in perform_render")>>,
                             /\ pc' = IF exit_on_error THEN "exited" ELSE "returned"
                             /\ exit_code' = IF exit_on_error THEN 1 ELSE exit_code
                             /\ render_result' = FALSE
                             /\ ui_boxes' = Append(ui_boxes, "Failed to perform render")
                             /\ failures' = failures + 1
                             /\ render_state' = "none"
                             /\ UNCHANGED <<pos_index, dir_index, eye, polls, renders,
                                            gi_x, gi_y, gi_result>>)

\* the states the host can move a render to
HostSuccessors(state) ==
    IF state = "Queued" THEN {"Processing", "Failed"}
    ELSE IF state = "Processing" THEN {"Finished", "Failed"}
    ELSE {}

\* the host works on the render while perform_render polls
HostRender ==
    /\ pc = "poll"
    /\ \E state \in HostSuccessors(render_state) :
          /\ render_state' = state
          /\ IF state = "Failed"
             THEN failures < MaxFailures /\ failures' = failures + 1
             ELSE failures' = failures
    /\ UNCHANGED <<pc, pos_index, dir_index, eye, polls, render_result, renders,
                   exit_code, ui_boxes>>
    /\ UNCHANGED <<exit_on_error, log_ok, grid_positions>>
    /\ UNCHANGED gi_vars
    /\ UNCHANGED testing_vars
    /\ UNCHANGED sc_vars
    /\ UNCHANGED runner_vars
    /\ UNCHANGED eyes_vars

\* one iteration of perform_render's loop (255-262); the progress read is 0
Poll(ok) ==
    /\ pc = "poll"
    /\ StillRendering(render_state)
    /\ polls < MaxPolls
    /\ Logged(ok, <<>>,
              /\ polls' = polls + 1
              /\ UNCHANGED <<pc, pos_index, dir_index, eye, render_state,
                             render_result, renders, exit_code, failures, ui_boxes,
                             gi_x, gi_y, gi_result>>)

\* the loop ends and perform_render returns (265-273)
LeaveLoop(ok) ==
    /\ pc = "poll"
    /\ ~StillRendering(render_state)
    /\ Logged(ok, <<Text(IF render_state = "Finished"
                         THEN "Render completed successfully"
                         ELSE IF render_state = "Failed"
                         THEN "Render failed with state"
                         ELSE "Should not happen, need to check the code carefully")>>,
              /\ pc' = "returned"
              /\ render_result' = perform_render_result(render_state)
              /\ UNCHANGED <<pos_index, dir_index, eye, render_state, polls, renders,
                             exit_code, failures, ui_boxes, gi_x, gi_y, gi_result>>)

\* capture_views after perform_render returned (381-389, 404-409); the
\* render_future of perform_render is gone
AfterRender(ok) ==
    /\ pc = "returned"
    /\ IF ~render_result
       THEN LET failed == IF eye = "left" THEN "Failed left-eye render"
                          ELSE "Failed right-eye render"
            IN  Logged(ok, <<About(failed, grid_positions[pos_index])>>,
                       /\ SkipDirection(<<failed>>)
                       /\ render_state' = "none"
                       /\ polls' = 0
                       /\ UNCHANGED <<pos_index, eye, render_result, renders, failures,
                                      gi_x, gi_y, gi_result>>)
       ELSE IF eye = "left"
       THEN Logged(ok, <<Text("Setting up right eye render")>>,
                   /\ pc' = "setup"
                   /\ eye' = "right"
                   /\ render_state' = "none"
                   /\ polls' = 0
                   /\ UNCHANGED <<pos_index, dir_index, render_result, renders,
                                  exit_code, failures, ui_boxes, gi_x, gi_y, gi_result>>)
       ELSE Logged(ok, <<>>,
                   /\ pc' = "direction"
                   /\ dir_index' = dir_index + 1
                   /\ render_state' = "none"
                   /\ polls' = 0
                   /\ UNCHANGED <<pos_index, eye, render_result, renders, exit_code,
                                  failures, ui_boxes, gi_x, gi_y, gi_result>>)

\* a step of the script as its control flow sees the log write end with ok
ScriptStep(ok) ==
    \/ RunStart(ok)
    \/ CheckDesign(ok)
    \/ SwitchWorkspace(ok)
    \/ NextPosition(ok)
    \/ NextDirection(ok)
    \/ SetupRender(ok)
    \/ StartRender(ok)
    \/ Poll(ok)
    \/ LeaveLoop(ok)
    \/ AfterRender(ok)

NextCapture ==
    \/ RunStart(log_ok)
    \/ CheckDesign(log_ok)
    \/ SwitchWorkspace(log_ok)
    \/ NextPosition(log_ok)
    \/ NextDirection(log_ok)
    \/ SetupRender(log_ok)
    \/ StartRender(log_ok)
    \/ Poll(log_ok)
    \/ LeaveLoop(log_ok)
    \/ AfterRender(log_ok)
    \/ HostRender

SpecCapture == InitCapture /\ [][NextCapture]_vars

\* the script went through capture_views without any failure
NoFailure == failures = 0 /\ gi_result.status # "ValueError"

\* C12: a failing log write never aborts the primary operation: no
\* exception leaves log_message, and every step of a script run whose log
\* writes fail is the step the script takes when they succeed (same results,
\* same renders), the log apart.
C12_LogFailureHarmless ==
    [][pc' # "crashed" /\ (ScriptStep(TRUE) \/ HostRender)]_vars

\* a whole run of 16 renders with every log write failing
C12_Witness ==
    /\ ~log_ok
    /\ enable_logging
    /\ pc = "done"
    /\ Len(renders) = 16
    /\ log = <<>>

\* the k-th render of a run without failure: position by position in list
\* order, East, North, West, South, left eye before right eye
ExpectedRender(k) ==
    LET i == (k - 1) \div 8 + 1
        d == ((k - 1) % 8) \div 2 + 1
    IN  <<grid_positions[i][1], grid_positions[i][2],
          <<"East", "North", "West", "South">>[d],
          IF (k - 1) % 2 = 0 THEN "left" ELSE "right">>

\* C14: when nothing fails, capture_views starts the renders in the order
\* position (list order), direction (East, North, West, South), eye (left,
\* right), and when it returns it has started exactly 8 for each position.
C14_EightRendersInOrder ==
    NoFailure =>
        /\ Len(renders) <= 8 * Len(grid_positions)
        /\ \A k \in 1..Len(renders) : renders[k] = ExpectedRender(k)
        /\ pc = "done" => Len(renders) = 8 * Len(grid_positions)

C14_Witness ==
    /\ NoFailure
    /\ pc = "done"
    /\ grid_positions = << <<3, 2>>, <<1, 1>> >>
    /\ Len(renders) = 16
    /\ renders[11] = <<1, 1, "North", "left">>

\* C15: perform_render returns only when the render state is neither Queued
\* nor Processing, and what it returns is True exactly when that state is
\* Finished.
C15_WaitsForCompletion ==
    [][(pc = "poll" /\ pc' # "poll") =>
          /\ render_state \notin {"Queued", "Processing"}
          /\ pc' = "returned"
          /\ render_result' = (render_state = "Finished")]_vars

\* perform_render returned False for a render that failed while being polled
C15_Witness ==
    /\ pc = "returned"
    /\ render_state = "Failed"
    /\ ~render_result
    /\ polls = MaxPolls

(***************************************************************************)
(* The script run with fairness: the interpreter keeps executing           *)
(* perform_render, so the loop is left once its condition stays false; and *)
(* the host keeps working on a render that is queued or processing, so it  *)
(* eventually moves it on.                                                 *)
(***************************************************************************)
\* runs over at most one position: every render is polled by the same loop
InitCaptureFair == InitCapture /\ Len(grid_positions) <= 1

SpecCaptureFair ==
    /\ InitCaptureFair
    /\ [][NextCapture]_vars
    /\ WF_vars(LeaveLoop(log_ok))
    /\ WF_vars(HostRender)

\* C17: provided the host render eventually leaves Queued and Processing,
\* perform_render eventually returns, however many polls that takes.
C17_ReturnsWhenHostFinishes == (pc = "poll") ~> (pc # "poll")

\* perform_render returned after polling as often as the model counts
C17_Witness ==
    /\ pc = "returned"
    /\ polls = MaxPolls
    /\ render_state = "Finished"
    /\ render_result

\* the script has met a failure: one produced by the host, or a position
\* that the resolver rejected
FailureMet == failures > 0 \/ gi_result.status = "ValueError"

\* C18: with exit_on_error = True, from the first failure on no render is
\* started, the script never reaches the end of run, and it ends by the
\* SystemExit with status 1, which no handler catches.
C18_ExitOnFirstFailure ==
    [][(exit_on_error /\ FailureMet') =>
          /\ renders' = renders
          /\ pc' \in {"poll", "returned", "exited"}
          /\ pc' = "exited" => exit_code' = 1
          /\ pc = "exited" => pc' = "exited"
          /\ MsgCompleted \notin {log'[i] : i \in 1..Len(log')}]_vars

\* the script exited with status 1 after the third render failed
C18_Witness ==
    /\ exit_on_error
    /\ pc = "exited"
    /\ exit_code = 1
    /\ Len(renders) = 3
    /\ ui_boxes = <<"Failed left-eye render">>

\* this step handles a failed render setup or a failed render of the
\* current direction
DirectionFails ==
    \/ pc = "returned" /\ ~render_result
    \/ pc = "setup" /\ failures' > failures

\* capture_views was left before its loop over the positions ended
LeftEarly ==
    \E i \in 1..Len(ui_boxes) :
        ui_boxes[i] \in {"No active Fusion design.", "Render workspace not found.",
                         "Failed:"}

\* C19: with exit_on_error = False, a failed render setup or render of a
\* direction starts no further render for that direction (a failed left eye
\* skips the right eye) and capture_views goes on with the next direction;
\* the remaining directions and positions are all processed: at the end one
\* failed left-eye render has cost exactly the right-eye render of its
\* direction, one failed right-eye render has cost nothing, and no failure
\* costs more than the two renders of its direction.
C19_SkipsEyeAndContinues ==
    [][~exit_on_error =>
          /\ DirectionFails =>
                /\ pc' = "direction"
                /\ dir_index' = dir_index + 1
                /\ pos_index' = pos_index
                /\ renders' = renders
          /\ pc' # "exited"
          /\ (pc' = "done" /\ ~LeftEarly') =>
                /\ pos_index' > Len(grid_positions)
                /\ Len(renders') >= 8 * Len(grid_positions) - 2 * failures'
                /\ ui_boxes' = <<"Failed left-eye render">> =>
                      Len(renders') = 8 * Len(grid_positions) - 1
                /\ ui_boxes' = <<"Failed right-eye render">> =>
                      Len(renders') = 8 * Len(grid_positions)]_vars

\* the left-eye render of the first position facing North failed; its right
\* eye was skipped and everything after it was rendered
C19_Witness ==
    /\ ~exit_on_error
    /\ pc = "done"
    /\ grid_positions = << <<3, 2>>, <<1, 1>> >>
    /\ ui_boxes = <<"Failed left-eye render">>
    /\ Len(renders) = 15
    /\ renders[3] = <<3, 2, "North", "left">>
    /\ renders[4] = <<3, 2, "West", "left">>
    /\ renders[15] = <<1, 1, "South", "right">>

\* C20 (as claimed): run writes "=== Script completed successfully ===" only
\* if every position was resolved and all 8 renders of each finished
\* successfully.
C20_Original ==
    MsgCompleted \in {log[i] : i \in 1..Len(log)} =>
        /\ NoFailure
        /\ Len(renders) = 8 * Len(grid_positions)

\* the file the k-th render of the run is written to
RenderFile(k) == filename(renders[k][1], renders[k][2], renders[k][3], renders[k][4])

\* C21: within one call of capture_views on distinct valid positions no two
\* renders are written to the same file: a render that is started never
\* goes to the file of an earlier render of the call.
C21_DistinctFiles ==
    [][renders' # renders =>
          \A i \in 1..Len(renders) :
              RenderFile(i) # filename(renders'[Len(renders')][1],
                                       renders'[Len(renders')][2],
                                       renders'[Len(renders')][3],
                                       renders'[Len(renders')][4])]_vars

\* all 16 renders of the positions (1, 11) and (11, 1), whose numbers have
\* the same digits
C21_Witness ==
    /\ pc = "done"
    /\ grid_positions = << <<1, 11>>, <<11, 1>> >>
    /\ Len(renders) = 16
    /\ RenderFile(1) = <<"pos_", "1", "_", "1", "1", "_", "East", "_", "left", ".png">>
    /\ RenderFile(9) = <<"pos_", "1", "1", "_", "1", "_", "East", "_", "left", ".png">>

(***************************************************************************)
(* The runner script that launcher.create_run_script writes to             *)
(* temp_runner.py and advanced_launcher.create_autodesk_script_location    *)
(* writes to AutoGridImagesRunner.py (the same text).  Its run(context)    *)
(* waits for a document, loads grid_images and calls grid_images.run.  The *)
(* host may open a document at any moment; a document that is open stays   *)
(* open.  Loading the module may raise; grid_images.run returns, raises an *)
(* exception or raises SystemExit (its exit_on_error).                     *)
(***************************************************************************)
max_retries == 30

NoDocumentBox == "No active document after waiting. Please open your model manually."

InitRunner ==
    /\ TestingIdle
    /\ GridImagesIdle
    /\ SetCaptureIdle
    /\ CaptureIdle
    /\ runner_script \in {"temp_runner.py", "AutoGridImagesRunner.py"}
    /\ runner_pc = "run"
    /\ active_document \in BOOLEAN
    /\ retries = 0
    /\ runner_boxes = <<>>
    /\ loaded = FALSE
    /\ run_calls = 0
    /\ EyesIdle

RunnerOnly ==
    /\ UNCHANGED runner_script
    /\ UNCHANGED testing_vars
    /\ UNCHANGED gi_vars
    /\ UNCHANGED sc_vars
    /\ UNCHANGED cap_vars
    /\ UNCHANGED eyes_vars

\* the host finishes loading a document
DocumentOpens ==
    /\ runner_pc \in {"run", "wait", "check", "load", "call"}
    /\ ~active_document
    /\ active_document' = TRUE
    /\ UNCHANGED <<runner_pc, retries, runner_boxes, loaded, run_calls>>
    /\ RunnerOnly

\* run(context) up to the loop: retries = 0, max_retries = 30
RunnerStart ==
    /\ runner_pc = "run"
    /\ retries' = 0
    /\ runner_pc' = "wait"
    /\ UNCHANGED <<active_document, runner_boxes, loaded, run_calls>>
    /\ RunnerOnly

\* a loop iteration that does not test retries
RunnerWait_unbounded ==
    /\ runner_pc = "wait"
    /\ ~active_document
    /\ retries' = retries + 1
    /\ UNCHANGED <<runner_pc, active_document, runner_boxes, loaded, run_calls>>
    /\ RunnerOnly

\* one iteration of "while not app.activeDocument and retries < max_retries":
\* print, sleep(1), retries += 1, doEvents
RunnerWait ==
    /\ runner_pc = "wait"
    /\ ~active_document /\ retries < max_retries
    /\ retries' = retries + 1
    /\ UNCHANGED <<runner_pc, active_document, runner_boxes, loaded, run_calls>>
    /\ RunnerOnly

\* the loop condition is false: the loop ends
RunnerLeaveWait ==
    /\ runner_pc = "wait"
    /\ ~(~active_document /\ retries < max_retries)
    /\ runner_pc' = "check"
    /\ UNCHANGED <<active_document, retries, runner_boxes, loaded, run_calls>>
    /\ RunnerOnly

\* "if not app.activeDocument": message box and return
RunnerCheck ==
    /\ runner_pc = "check"
    /\ IF ~active_document
       THEN /\ runner_boxes' = Append(runner_boxes, NoDocumentBox)
            /\ runner_pc' = "returned"
       ELSE /\ runner_boxes' = runner_boxes
            /\ runner_pc' = "load"
    /\ UNCHANGED <<active_document, retries, loaded, run_calls>>
    /\ RunnerOnly

\* spec_from_file_location, module_from_spec, exec_module; an exception is
\* handled by the except clause of run
RunnerLoad ==
    /\ runner_pc = "load"
    /\ \E raises \in BOOLEAN :
          IF raises
          THEN /\ runner_boxes' = Append(runner_boxes, "Failed:")
               /\ runner_pc' = "returned"
               /\ loaded' = loaded
          ELSE /\ runner_boxes' = runner_boxes
               /\ runner_pc' = "call"
               /\ loaded' = TRUE
    /\ UNCHANGED <<active_document, retries, run_calls>>
    /\ RunnerOnly

\* grid_images.run(context): "except Exception" does not catch its SystemExit
RunnerCall ==
    /\ runner_pc = "call"
    /\ run_calls' = run_calls + 1
    /\ \E outcome \in {"returns", "Exception", "SystemExit"} :
          /\ runner_pc' = IF outcome = "SystemExit" THEN "exited" ELSE "returned"
          /\ runner_boxes' = IF outcome = "Exception"
                             THEN Append(runner_boxes, "Failed:") ELSE runner_boxes
    /\ UNCHANGED <<active_document, retries, loaded>>
    /\ RunnerOnly

NextRunner ==
    \/ DocumentOpens
    \/ RunnerStart
    \/ RunnerWait
    \/ RunnerLeaveWait
    \/ RunnerCheck
    \/ RunnerLoad
    \/ RunnerCall

SpecRunner == InitRunner /\ [][NextRunner]_vars

\* C22: the runner script polls for an active document at most 30 times and
\* then leaves the loop; it calls grid_images.run only when a document is
\* active; when no document is active after the 30 polls it shows the
\* message and returns with grid_images neither loaded nor run.
C22_WaitsAtMostThirty ==
    [][/\ retries' <= 30
       /\ (runner_pc = "wait" /\ retries = 30 /\ retries' = retries
              /\ active_document' = active_document) => runner_pc' = "check"
       /\ run_calls' # run_calls => active_document
       /\ (runner_pc = "check" /\ ~active_document /\ ~active_document') =>
              /\ retries = 30
              /\ runner_pc' = "returned"
              /\ runner_boxes' = <<NoDocumentBox>>
              /\ ~loaded' /\ run_calls' = 0
       /\ (runner_pc = "returned" /\ runner_boxes = <<NoDocumentBox>>) =>
              ~loaded /\ run_calls = 0]_vars

\* no document after 30 polls: the message was shown and run returned
C22_Witness ==
    /\ runner_pc = "returned"
    /\ retries = 30
    /\ ~active_document
    /\ runner_boxes = <<NoDocumentBox>>
    /\ ~loaded
    /\ run_calls = 0

\* the resolver of testing.py with the table lookup (lines 32-34) taken out
get_maze_coordinates_without_table(gx, gy) ==
    IF ~InRange(gx, gy) THEN Raise("ValueError")
    ELSE Return(<<round3(x_inches(gx)), round3(y_inches(gy)), Z_HEIGHT>>)

\* C23: the reference table is consistent with the general rule: for every
\* cell, the nine reference cells included, the call returns what the
\* landmark/interpolation branch computes for that cell.
C23_TableAgreesWithRule ==
    Called => result = get_maze_coordinates_without_table(grid_x, grid_y)

\* the reference cell (10, 2), whose x the rule computes as 16.336 + 8 * x_step
C23_Witness ==
    /\ Returned
    /\ grid_x = 10
    /\ grid_y = 2
    /\ result.coords[1] = round3(x_inches(10))
    /\ result.coords[1] = Lit(94702)
    /\ result.coords[2] = round3(y_inches(2))

(***************************************************************************)
(* calculate_eye_positions (grid_images.py and gi_four.py, the same text)  *)
(***************************************************************************)
\* value_in_inches * 2.54
inches_to_cm(a) == FMul(a, Lit(2540))

\* inches_to_cm(0.5) = 1.27: 0.5 is 2 * 2^-2
EYE_SEPARATION == ScaledMul(Scaled(FromInt(2), 2), Scaled(Lit(2540), 0))

\* inches_to_cm(2.5)
EYE_HEIGHT_OFFSET == inches_to_cm(Lit(2500))

\* capture_views: the resolved coordinates in cm, the eye height added to z
gi_position(coords) ==
    <<inches_to_cm(coords[1]), inches_to_cm(coords[2]),
      FAdd(inches_to_cm(coords[3]), EYE_HEIGHT_OFFSET)>>

\* set_camera_position of gi_four.py: the middle of the maze, the eye at
\* inches_to_cm(33.577 + 2.5)
four_position ==
    <<inches_to_cm(Lit(55519)), inches_to_cm(Lit(53500)),
      inches_to_cm(FAdd(Lit(33577), Lit(2500)))>>

CardinalHeadings == {0, 90, 180, 270}

\* math.sin(math.radians(h)) for the cardinal headings: radians(h) is the
\* float nearest to h * pi / 180, not the angle itself, so sin(radians(180))
\* is 0x1.1a62633145c07p-53 (1.2246467991473532e-16), not 0
sin_radians(h) ==
    IF h = 0 THEN Scaled(FromInt(0), 0)
    ELSE IF h = 90 THEN Scaled(FromInt(2), 1)
    ELSE IF h = 180 THEN Scaled(Float(FALSE, <<23559, 72074, 27017, 2>>), 54)
    ELSE Scaled(FromInt(-2), 1)

\* math.cos(math.radians(h)): cos(radians(90)) is 0x1.1a62633145c07p-54
\* (6.123233995736766e-17) and cos(radians(270)) is -0x1.a79394c9e8a0ap-53
\* (-1.8369701987210297e-16)
cos_radians(h) ==
    IF h = 0 THEN Scaled(FromInt(2), 1)
    ELSE IF h = 90 THEN Scaled(Float(FALSE, <<23559, 72074, 27017, 2>>), 55)
    ELSE IF h = 180 THEN Scaled(FromInt(-2), 1)
    ELSE Scaled(Float(TRUE, <<35338, 42575, 40526, 3>>), 54)

\* left_x with the sign of the sine kept: the left eye on the clockwise side
left_x_clockwise(h) == sin_radians(h)

\* left_x = -math.sin(heading_rad)
left_x(h) == ScaledNeg(sin_radians(h))

\* left_y = math.cos(heading_rad)
left_y(h) == cos_radians(h)

\* half_eye_sep = EYE_SEPARATION / 2.0
half_eye_sep(separation) == ScaledHalve(separation)

calculate_eye_positions(pos, h, separation) ==
    LET dx == ScaledMul(left_x(h), half_eye_sep(separation))
        dy == ScaledMul(left_y(h), half_eye_sep(separation))
    IN  [left  |-> <<FAddScaled(pos[1], dx), FAddScaled(pos[2], dy), pos[3]>>,
         right |-> <<FSubScaled(pos[1], dx), FSubScaled(pos[2], dy), pos[3]>>]

ValidCells == (0..12) \X (0..12)

\* one call of calculate_eye_positions: by capture_views of grid_images.py on
\* the position of a valid cell, or by set_camera_position of gi_four.py
InitEyes ==
    /\ TestingIdle
    /\ GridImagesIdle
    /\ SetCaptureIdle
    /\ CaptureIdle
    /\ RunnerIdle
    /\ eyes_script \in {"grid_images.py", "gi_four.py"}
    /\ eyes_cell \in (IF eyes_script = "gi_four.py" THEN {<<6, 6>>} ELSE ValidCells)
    /\ position = <<>>
    /\ eyes_heading = 0
    /\ left_eye = <<>>
    /\ right_eye = <<>>

EyesOnly ==
    /\ UNCHANGED <<eyes_script, eyes_cell>>
    /\ UNCHANGED testing_vars
    /\ UNCHANGED gi_vars
    /\ UNCHANGED sc_vars
    /\ UNCHANGED cap_vars
    /\ UNCHANGED runner_vars

\* grid_images.py lines 337-345: the cell is resolved and converted to cm
SetPosition ==
    /\ eyes_script = "grid_images.py"
    /\ position = <<>>
    /\ \E call \in {gi_get_maze_coordinates(eyes_cell[1], eyes_cell[2],
                                            <<>>, FALSE, TRUE, TRUE)} :
           position' = gi_position(call.ret.coords)
    /\ UNCHANGED <<eyes_heading, left_eye, right_eye>>
    /\ EyesOnly

\* gi_four.py lines 111-115
SetFourPosition ==
    /\ eyes_script = "gi_four.py"
    /\ position = <<>>
    /\ position' = four_position
    /\ UNCHANGED <<eyes_heading, left_eye, right_eye>>
    /\ EyesOnly

\* the call, for one of the headings of the directions table
CalculateEyePositions ==
    /\ position # <<>>
    /\ left_eye = <<>>
    /\ \E h \in CardinalHeadings :
         \E eyes \in {calculate_eye_positions(position, h, EYE_SEPARATION)} :
           /\ eyes_heading' = h
           /\ left_eye' = eyes.left
           /\ right_eye' = eyes.right
    /\ UNCHANGED position
    /\ EyesOnly

NextEyes == SetPosition \/ SetFourPosition \/ CalculateEyePositions

SpecEyes == InitEyes /\ [][NextEyes]_vars

\* a < b for two floats
FLess(a, b) ==
    IF a.neg # b.neg THEN a.neg /\ (a.mag # MagZero \/ b.mag # MagZero)
    ELSE IF a.neg THEN MagLess(b.mag, a.mag)
    ELSE MagLess(a.mag, b.mag)

\* |a - b| for two magnitudes (exact)
MagAbsDiff(a, b) == IF MagLess(a, b) THEN MagSub(b, a) ELSE MagSub(a, b)

\* the magnitude a is at most n units of 2^-51
MagAtMost(a, n) == a[4] = 0 /\ a[3] = 0 /\ a[2] = 0 /\ a[1] <= n

\* the unit in the last place of a float of magnitude 2 or more, in units of
\* 2^-51
Ulp(a) == Pow2(Log2Floor(a.mag[4]) - 1)

EyesComputed == left_eye # <<>>

\* heading 0 and 180 look along x, 90 and 270 along y: the index of the
\* coordinate along the heading, and of the one perpendicular to it
HeadingAxis(h) == IF h \in {0, 180} THEN 1 ELSE 2

PerpendicularAxis(h) == IF h \in {0, 180} THEN 2 ELSE 1

\* the exact distance of the two eyes along coordinate i
EyeDistance(i) ==
    IF left_eye[i].neg = right_eye[i].neg
    THEN MagAbsDiff(left_eye[i].mag, right_eye[i].mag)
    ELSE MagAdd(left_eye[i].mag, right_eye[i].mag)

\* by how much that distance differs from EYE_SEPARATION (1.27 is a whole
\* number of units)
SeparationError(i) == MagAbsDiff(EyeDistance(i), ScaledUnits(EYE_SEPARATION)[1])

\* by how much left + right differs from twice the position along
\* coordinate i, the three having one sign
MidpointError(i) ==
    MagAbsDiff(MagAdd(left_eye[i].mag, right_eye[i].mag),
               MagMulSmall(position[i].mag, 2))

SameSide(i) ==
    left_eye[i].neg = position[i].neg /\ right_eye[i].neg = position[i].neg

\* counter-clockwise of East is +y, of North -x, of West -y, of South +x
LeftIsCounterClockwise ==
    LET i == PerpendicularAxis(eyes_heading)
    IN  IF eyes_heading \in {0, 270}
        THEN FLess(position[i], left_eye[i]) /\ FLess(right_eye[i], position[i])
        ELSE FLess(left_eye[i], position[i]) /\ FLess(position[i], right_eye[i])

\* both eyes at the position's z and at its coordinate along the heading
OnPerpendicularAxis ==
    LET i == HeadingAxis(eyes_heading)
    IN  /\ left_eye[3] = position[3]
        /\ right_eye[3] = position[3]
        /\ left_eye[i] = position[i]
        /\ right_eye[i] = position[i]

\* the larger unit in the last place of the two eyes along coordinate i
EyeUlp(i) ==
    IF Ulp(left_eye[i]) < Ulp(right_eye[i]) THEN Ulp(right_eye[i])
    ELSE Ulp(left_eye[i])

\* C24 as stated: for each cardinal heading the eyes are symmetric about the
\* position (their midpoint is the position), at its z, exactly
\* EYE_SEPARATION apart along the axis perpendicular to the heading, the
\* left eye counter-clockwise of the heading.
C24_Original ==
    EyesComputed =>
        LET i == PerpendicularAxis(eyes_heading)
        IN  /\ OnPerpendicularAxis
            /\ LeftIsCounterClockwise
            /\ SameSide(i)
            /\ MidpointError(i) = MagZero
            /\ SeparationError(i) = MagZero

\* C24: for each cardinal heading both eyes are at the position's z and at
\* its coordinate along the heading, the left eye counter-clockwise of the
\* heading and the right eye opposite; their distance differs from
\* EYE_SEPARATION, and their midpoint from the position, by no more than one
\* unit in the last place of the eye coordinates.
C24_SymmetricWithinUlp ==
    EyesComputed =>
        LET i == PerpendicularAxis(eyes_heading)
        IN  /\ OnPerpendicularAxis
            /\ LeftIsCounterClockwise
            /\ SameSide(i)
            /\ MagAtMost(MidpointError(i), EyeUlp(i))
            /\ MagAtMost(SeparationError(i), EyeUlp(i))

\* heading North at cell (1, 1): the eyes are 1.2700000000000031 apart along x
C24_Witness ==
    /\ EyesComputed
    /\ eyes_script = "grid_images.py"
    /\ eyes_cell = <<1, 1>>
    /\ eyes_heading = 90
    /\ position[1] = inches_to_cm(Lit(8039))
    /\ FLess(left_eye[1], position[1])
    /\ left_eye[2] = position[2]
    /\ SeparationError(1) = <<7, 0, 0, 0>>

====
